---- MODULE Spec2Model ----
(***************************************************************************)
(* A model of src/solve/Unit.h (namespace nufl): the dimension triple Dim, *)
(* the scale Base (a Dim and three std::ratio), the compile-time           *)
(* conversion ratio (ipow, dividend, divisor, ConversionRatio), the casts  *)
(* dimension_cast / unit_cast, the class Unit with its constructors,       *)
(* as / asVal, += / -=, and the binary operator +.                         *)
(*                                                                         *)
(* A std::ratio is a pair <<num, den>> in lowest terms with den > 0. A     *)
(* value of an integral representation is <<n, 1>>; a value of a floating  *)
(* representation is an exact rational <<n, d>> in lowest terms (rounding  *)
(* of the floating type is not modelled). A template instantiation the     *)
(* compiler refuses is a result with ok = FALSE.                           *)
(***************************************************************************)
EXTENDS Integers

VARIABLES
    op,     \* the operation last carried out
    lhs,    \* its left operand / the object it was called on
    rhs,    \* its right operand (binary operators, compound assignment)
    to,     \* the type asked for: [rep, base]
    res,    \* what it produced
    cv,     \* the instantiation of `conversion` in dimension_cast
    ipc,    \* ipow: position of the evaluation
    iargs,  \* ipow: the arguments of the outermost call
    ibase,  \* ipow: parameter base of the current call
    iexp,   \* ipow: parameter exp of the current call
    iresult, \* ipow: parameter result of the current call
    iovf    \* ipow: a multiplication has left the range of the integer type

vars == <<op, lhs, rhs, to, res, cv, ipc, iargs, ibase, iexp, iresult, iovf>>
unitVars == <<op, lhs, rhs, to, res>>
ipowVars == <<ipc, iargs, ibase, iexp, iresult, iovf>>

----------------------------------------------------------------------------
(* Bounds of the model.                                                    *)

\* exponents of a Dim are drawn from -MaxExp .. MaxExp
MaxExp == 1
\* raw values are drawn from -1 .. MaxVal
MaxVal == 3
\* width in bits of the signed integer type the evaluation of ipow is
\* followed in (int64_t has 64 of them; the width is scaled down)
IntBits == 8
\* ipow is started on bases -MaxBase .. MaxBase and exponents -1 .. MaxPow
MaxBase == 12
MaxPow == 4

----------------------------------------------------------------------------
(* Integer arithmetic as C++ does it.                                      *)

Abs(x) == IF x < 0 THEN -x ELSE x

Sgn(x) == IF x < 0 THEN -1 ELSE IF x = 0 THEN 0 ELSE 1

\* a / b on integers: the quotient truncated towards zero
CDiv(a, b) == Sgn(a) * Sgn(b) * (Abs(a) \div Abs(b))

\* a % b on integers: the remainder has the sign of a
CMod(a, b) == a - b * CDiv(a, b)

RECURSIVE Gcd(_, _)
Gcd(a, b) == IF b = 0 THEN Abs(a) ELSE Gcd(b, Abs(a) % Abs(b))

Lcm(a, b) == (Abs(a) \div Gcd(a, b)) * Abs(b)

\* std::ratio<N, D>: num and den are N/D in lowest terms, den > 0
Ratio(n, d) == <<Sgn(n) * Sgn(d) * (Abs(n) \div Gcd(n, d)), Abs(d) \div Gcd(n, d)>>

\* std::ratio_multiply<A, B>
RatioMultiply(a, b) == Ratio(a[1] * b[1], a[2] * b[2])

----------------------------------------------------------------------------
(* Unit.h:76-98: the conversion ratio of one axis.                         *)

RECURSIVE ipow(_, _, _)
ipow(base, exp, result) ==
    IF exp < 1 THEN result
    ELSE ipow(base * base, CDiv(exp, 2),
              IF CMod(exp, 2) # 0 THEN result * base ELSE result)

iabs(i) == IF i >= 0 THEN i ELSE -i

dividend_keepsBase(a, exp) ==
    IF exp = 0 THEN a ELSE ipow(a, iabs(exp), 1)

dividend(a, exp) ==
    IF exp = 0 THEN 1 ELSE ipow(a, iabs(exp), 1)

divisor(a, b, exp) ==
    IF exp = 0 THEN 1 ELSE ipow(IF exp > 0 THEN a ELSE b, iabs(exp), 1)

\* R1 is the ratio of the source on the axis, R that of the target
ConversionRatio(R1, R, exp) ==
    RatioMultiply(Ratio(dividend(R1[1], exp), dividend(R1[2], exp)),
                  Ratio(divisor(R[2], R[1], exp), divisor(R[1], R[2], exp)))

\* the alias `conversion` of dimension_cast: B1, B are the ratio triples of
\* the source and target Base, D the Dim the cast is instantiated with
Conversion(B1, B, D) ==
    RatioMultiply(ConversionRatio(B1[1], B[1], D[1]),
                  RatioMultiply(ConversionRatio(B1[2], B[2], D[2]),
                                ConversionRatio(B1[3], B[3], D[3])))

----------------------------------------------------------------------------
(* Unit.h:29-71: Dim, Base and IsMultiple.                                 *)

Exps == -MaxExp .. MaxExp

\* Dim<D1, D2, D3>
Dims == Exps \X Exps \X Exps

\* the std::ratio arguments a Base is instantiated with
Ratios == {<<1, 1>>, <<1, 3>>, <<2, 1>>}

\* operator+(Dim<D1,D2,D3>, Dim<D1,D2,D3>): declared for equal operands only
DimAddDefined(D1, D2) == D1 = D2

DimAdd(D1, D2) == D1

IsMultipleAxis(R1, R2) == CMod(R1[1] * R2[2], R2[1] * R1[2]) = 0

IsMultiple_swapped(B1, B2) ==
    \A i \in 1..3 : IsMultipleAxis(B2.r[i], B1.r[i])

IsMultiple(B1, B2) ==
    \A i \in 1..3 : IsMultipleAxis(B1.r[i], B2.r[i])

----------------------------------------------------------------------------
(* Representations and values.                                             *)

Reps == {"int", "float"}

is_integral(T) == T = "int"

is_floating_point(T) == T = "float"

\* decltype(X + Y) on representations
AddType(X, Y) == IF is_integral(X) /\ is_integral(Y) THEN "int" ELSE "float"

\* static_cast<Y>(v)
StaticCast(Y, v) == IF is_integral(Y) THEN <<CDiv(v[1], v[2]), 1>> ELSE v

\* v * num / den with v of type Y and num, den of type intmax_t
MulDiv(Y, v, num, den) ==
    IF is_integral(Y) THEN <<CDiv(v[1] * num, den), 1>>
    ELSE Ratio(v[1] * num, v[2] * den)

ValAdd(a, b) == Ratio(a[1] * b[2] + b[1] * a[2], a[2] * b[2])

ValSub(a, b) == Ratio(a[1] * b[2] - b[1] * a[2], a[2] * b[2])

\* Unit<T, B>
UnitType(T, B) == [rep |-> T, base |-> B]

\* Unit(const T& val), Unit.h:131
Unit(T, B, val) == [rep |-> T, base |-> B, value |-> StaticCast(T, val)]

TypeOf(u) == UnitType(u.rep, u.base)

----------------------------------------------------------------------------
(* Unit.h:100-122: the casts.                                              *)

dimension_cast(ToUnit, unit, D) ==
    LET Y == ToUnit.rep
        conversion == Conversion(unit.base.r, ToUnit.base.r, D)
    IN  Unit(Y, ToUnit.base,
             MulDiv(Y, StaticCast(Y, unit.value), conversion[1], conversion[2]))

unit_cast(ToUnit, unit) ==
    dimension_cast(ToUnit, unit, DimAdd(unit.base.dim, ToUnit.base.dim))

----------------------------------------------------------------------------
(* Unit.h:124-165: class Unit.                                             *)

DefaultBase == [dim |-> <<1, 0, 0>>, r |-> <<(<<1, 1>>), (<<1, 1>>), (<<1, 1>>)>>]

\* no result: the expression is ill-formed and the build is refused
Rejected ==
    [ok |-> FALSE, kind |-> "none", rep |-> "int", base |-> DefaultBase,
     value |-> <<0, 1>>]

\* a result of type Unit<u.rep, u.base>
Produced(u) ==
    [ok |-> TRUE, kind |-> "unit", rep |-> u.rep, base |-> u.base,
     value |-> u.value]

\* a result of the bare type T
Scalar(T, v) ==
    [ok |-> TRUE, kind |-> "scalar", rep |-> T, base |-> DefaultBase,
     value |-> StaticCast(T, v)]

NoUnit == Unit("int", DefaultBase, <<0, 1>>)

\* the enable_if conditions of the two converting constructors,
\* Unit<T,B>::Unit(const Unit<X,B1>&)
IntegralCtorEnabled(T, B, X, B1) ==
    is_integral(T) /\ is_integral(X) /\ IsMultiple(B1, B)

FloatingCtorEnabled_floatingSourceOnly(T, B, X, B1) ==
    is_floating_point(T) /\ is_floating_point(X)

FloatingCtorEnabled(T, B, X, B1) ==
    \/ is_floating_point(T) /\ is_floating_point(X)
    \/ is_floating_point(T) /\ ~is_floating_point(X)

\* initialising a Unit<T,B> (ToUnit) from the Unit rhs: the implicit copy
\* constructor when rhs has that very type, else a converting constructor
\* whose condition holds, else no constructor at all
Construct(ToUnit, r) ==
    IF TypeOf(r) = ToUnit THEN Produced(r)
    ELSE IF \/ IntegralCtorEnabled(ToUnit.rep, ToUnit.base, r.rep, r.base)
            \/ FloatingCtorEnabled(ToUnit.rep, ToUnit.base, r.rep, r.base)
         THEN IF DimAddDefined(r.base.dim, ToUnit.base.dim)
              THEN Produced(Unit(ToUnit.rep, ToUnit.base, unit_cast(ToUnit, r).value))
              ELSE Rejected
         ELSE Rejected

\* u.as<Q>()
as(u, Q) ==
    IF DimAddDefined(u.base.dim, Q.base.dim)
    THEN Produced(unit_cast(Q, u))
    ELSE Rejected

\* u.asVal<Q>(): the return type is T, the representation of u
asVal(u, Q) ==
    IF DimAddDefined(u.base.dim, Q.base.dim)
    THEN Scalar(u.rep, unit_cast(Q, u).value)
    ELSE Rejected

\* l += r and l -= r: the parameter is const Unit<T,B>&, so r is first
\* used to initialise a Unit<T,B>
PlusAssign(l, r) ==
    LET c == Construct(TypeOf(l), r)
    IN  IF c.ok THEN Produced(Unit(l.rep, l.base, ValAdd(l.value, c.value)))
        ELSE Rejected

MinusAssign(l, r) ==
    LET c == Construct(TypeOf(l), r)
    IN  IF c.ok THEN Produced(Unit(l.rep, l.base, ValSub(l.value, c.value)))
        ELSE Rejected

----------------------------------------------------------------------------
(* Unit.h:207-223: the common Base and operator+.                          *)

\* std::common_type of two std::chrono::duration, its period
CommonRatio(R1, R2) == Ratio(Gcd(R1[1], R2[1]), Lcm(R1[2], R2[2]))

CommonBase(D, B1, B2) ==
    [dim |-> D,
     r |-> <<CommonRatio(B1.r[1], B2.r[1]), CommonRatio(B1.r[2], B2.r[2]),
             CommonRatio(B1.r[3], B2.r[3])>>]

OperatorPlus(l, r) ==
    IF ~DimAddDefined(l.base.dim, r.base.dim) THEN Rejected
    ELSE LET B == CommonBase(DimAdd(l.base.dim, r.base.dim), l.base, r.base)
             T == AddType(l.rep, r.rep)
         IN  Produced(Unit(T, B, ValAdd(unit_cast(UnitType(l.rep, B), l).value,
                                        unit_cast(UnitType(r.rep, B), r).value)))

----------------------------------------------------------------------------
(* The operations on quantities: a quantity is constructed from a raw      *)
(* value, then one operation of the class is applied to it.                *)

\* the Dim of the si helper types Length, Length2, Velocity and Force
\* (Unit.h:289-301), no dimension, and inverse length
UnitDims ==
    {<<1, 0, 0>>, <<2, 0, 0>>, <<1, -1, 0>>, <<1, 1, -2>>, <<0, 0, 0>>,
     <<-1, 0, 0>>}

\* the ratio triples the quantities are scaled with
UnitRatios ==
    {<<1, 1>>, <<1, 3>>, <<2, 1>>} \X {<<1, 1>>, <<1, 3>>} \X {<<1, 1>>, <<2, 1>>}

\* Base<Dim, R1, R2, R3>
UnitBases == [dim : UnitDims, r : UnitRatios]

\* raw values handed to Unit(const T&): integers for an integral T, halves
\* for a floating T
RawVals(T) ==
    IF is_integral(T) THEN {<<n, 1>> : n \in -1 .. MaxVal}
    ELSE {Ratio(n, 2) : n \in 1 .. MaxVal}

Units == UNION {{Unit(T, B, v) : v \in RawVals(T)} : <<T, B>> \in Reps \X UnitBases}

\* the types of the same Dim as u
TypesLike(u) ==
    {UnitType(T, B) : <<T, B>> \in Reps \X {b \in UnitBases : b.dim = u.base.dim}}

UnitsLike(u) == {x \in Units : x.base.dim = u.base.dim}

UnitInit ==
    /\ op = "none"
    /\ lhs = NoUnit
    /\ rhs = NoUnit
    /\ to = TypeOf(NoUnit)
    /\ res = Rejected

\* Unit<T,B> q(val)
New ==
    /\ op = "none"
    /\ \E u \in Units :
        /\ op' = "new"
        /\ lhs' = u
        /\ to' = TypeOf(u)
        /\ res' = Produced(u)
    /\ UNCHANGED <<rhs, cv, ipowVars>>

\* Q q2(q), Q another instantiation of Unit
Convert ==
    /\ op = "new"
    /\ \E Q \in TypesLike(lhs) :
        /\ op' = "ctor"
        /\ to' = Q
        /\ res' = Construct(Q, lhs)
    /\ UNCHANGED <<lhs, rhs, cv, ipowVars>>

\* q.as<Q>()
As ==
    /\ op = "new"
    /\ \E Q \in TypesLike(lhs) :
        /\ op' = "as"
        /\ to' = Q
        /\ res' = as(lhs, Q)
    /\ UNCHANGED <<lhs, rhs, cv, ipowVars>>

\* q.asVal<Q>()
AsVal ==
    /\ op = "new"
    /\ \E Q \in TypesLike(lhs) :
        /\ op' = "asVal"
        /\ to' = Q
        /\ res' = asVal(lhs, Q)
    /\ UNCHANGED <<lhs, rhs, cv, ipowVars>>

\* q += r
AddAssign ==
    /\ op = "new"
    /\ \E r \in UnitsLike(lhs) :
        /\ op' = "+="
        /\ rhs' = r
        /\ res' = PlusAssign(lhs, r)
    /\ UNCHANGED <<lhs, to, cv, ipowVars>>

\* q -= r
SubAssign ==
    /\ op = "new"
    /\ \E r \in UnitsLike(lhs) :
        /\ op' = "-="
        /\ rhs' = r
        /\ res' = MinusAssign(lhs, r)
    /\ UNCHANGED <<lhs, to, cv, ipowVars>>

\* q + r
Add ==
    /\ op = "new"
    /\ \E r \in UnitsLike(lhs) :
        /\ op' = "+"
        /\ rhs' = r
        /\ to' = UnitType(AddType(lhs.rep, r.rep),
                          CommonBase(DimAdd(lhs.base.dim, r.base.dim), lhs.base, r.base))
        /\ res' = OperatorPlus(lhs, r)
    /\ UNCHANGED <<lhs, cv, ipowVars>>

----------------------------------------------------------------------------
(* The instantiation of dimension_cast's `conversion` (Unit.h:106-108).    *)

NoConversion ==
    [inst |-> FALSE, B1 |-> DefaultBase.r, B |-> DefaultBase.r,
     D |-> DefaultBase.dim, axis |-> <<(<<1, 1>>), (<<1, 1>>), (<<1, 1>>)>>,
     conversion |-> <<1, 1>>]

\* dimension_cast<Unit<Y,B>, X, B1, D>: B1 and B are the ratio triples of
\* the two Base, D is any Dim
Instantiate ==
    /\ ~cv.inst
    /\ \E B1 \in Ratios \X Ratios \X Ratios : \E B \in Ratios \X Ratios \X Ratios :
       \E D \in Dims :
        cv' = [inst |-> TRUE, B1 |-> B1, B |-> B, D |-> D,
               axis |-> [i \in 1..3 |-> ConversionRatio(B1[i], B[i], D[i])],
               conversion |-> Conversion(B1, B, D)]
    /\ UNCHANGED <<unitVars, ipowVars>>

----------------------------------------------------------------------------
(* The evaluation of ipow (Unit.h:76-78), one call at a time, in a signed  *)
(* integer type of IntBits bits.                                           *)

RECURSIVE Pow(_, _)
Pow(b, n) == IF n <= 0 THEN 1 ELSE b * Pow(b, n - 1)

IntMax == Pow(2, IntBits - 1) - 1

IntMin == -Pow(2, IntBits - 1)

Fits(x) == IntMin <= x /\ x <= IntMax

\* the value a two's complement machine leaves after an overflow
Wrap(x) == ((x - IntMin) % Pow(2, IntBits)) + IntMin

\* the arguments of the recursive call ipow(base*base, exp/2, ...)
NextBase == ibase * ibase

NextResult == IF CMod(iexp, 2) # 0 THEN iresult * ibase ELSE iresult

\* ipow(b, e) is called
IpowCall ==
    /\ ipc = "idle"
    /\ \E b \in -MaxBase .. MaxBase : \E e \in -1 .. MaxPow :
        /\ iargs' = <<b, e>>
        /\ ibase' = b
        /\ iexp' = e
        /\ iresult' = 1
    /\ ipc' = "call"
    /\ iovf' = FALSE
    /\ UNCHANGED <<unitVars, cv>>

\* exp < 1: the call returns result
IpowReturn ==
    /\ ipc = "call"
    /\ iexp < 1
    /\ ipc' = "done"
    /\ UNCHANGED <<iargs, ibase, iexp, iresult, iovf, unitVars, cv>>

\* exp >= 1 and both arguments of the recursive call are in range
IpowRecurse ==
    /\ ipc = "call"
    /\ iexp >= 1
    /\ Fits(NextBase) /\ Fits(NextResult)
    /\ ibase' = NextBase
    /\ iexp' = CDiv(iexp, 2)
    /\ iresult' = NextResult
    /\ UNCHANGED <<ipc, iargs, iovf, unitVars, cv>>

\* exp >= 1 and an argument of the recursive call overflows: signed
\* overflow is undefined; a constant evaluation is refused, an evaluation
\* at run time carries on, here with the wrapped values
IpowOverflow ==
    /\ ipc = "call"
    /\ iexp >= 1
    /\ ~(Fits(NextBase) /\ Fits(NextResult))
    /\ iovf' = TRUE
    /\ \/ /\ ipc' = "error"
          /\ UNCHANGED <<ibase, iexp, iresult>>
       \/ /\ ipc' = "call"
          /\ ibase' = Wrap(NextBase)
          /\ iexp' = CDiv(iexp, 2)
          /\ iresult' = Wrap(NextResult)
    /\ UNCHANGED <<iargs, unitVars, cv>>

----------------------------------------------------------------------------
(* The specifications.                                                     *)

Init ==
    /\ UnitInit
    /\ cv = NoConversion
    /\ ipc = "idle"
    /\ iargs = <<0, 0>>
    /\ ibase = 0
    /\ iexp = 0
    /\ iresult = 1
    /\ iovf = FALSE

Next ==
    \/ New
    \/ Convert
    \/ As
    \/ AsVal
    \/ AddAssign
    \/ SubAssign
    \/ Add

\* quantities: construction and one operation
Spec == Init /\ [][Next]_vars

ConvNext == Instantiate

\* the conversion ratio of a cast
SpecConv == Init /\ [][ConvNext]_vars

IpowNext ==
    \/ IpowCall
    \/ IpowReturn
    \/ IpowRecurse
    \/ IpowOverflow

\* one evaluation of ipow; it is never left unfinished
SpecIpow == Init /\ [][IpowNext]_vars /\ WF_vars(IpowNext)

----------------------------------------------------------------------------
(* Exact rational arithmetic, the yardstick of the properties below.       *)

RatDiv(a, b) == Ratio(a[1] * b[2], a[2] * b[1])

RatMul(a, b) == Ratio(a[1] * b[1], a[2] * b[2])

\* a to the power d, d any integer
RatPow(a, d) ==
    IF d >= 0 THEN Ratio(Pow(a[1], d), Pow(a[2], d))
    ELSE Ratio(Pow(a[2], -d), Pow(a[1], -d))

\* (sourceRatio / targetRatio)^d
AxisFactor(R1, R, d) == RatPow(RatDiv(R1, R), d)

\* the factor that re-expresses a value scaled by B1 in the scale B
ScaleFactor(B1, B, D) ==
    RatMul(AxisFactor(B1[1], B[1], D[1]),
           RatMul(AxisFactor(B1[2], B[2], D[2]), AxisFactor(B1[3], B[3], D[3])))

\* the value of u re-expressed in the scale B, as an exact rational
Reexpressed(u, B) == RatMul(u.value, ScaleFactor(u.base.r, B.r, u.base.dim))

\* the result of the last operation as a Unit
ResUnit == [rep |-> res.rep, base |-> res.base, value |-> res.value]

\* the ratio triple r with the ratio of axis i replaced by x
WithAxis(r, i, x) == [r EXCEPT ![i] = x]

\* R1 is an exact integer multiple of R
WholeMultiple(R1, R) == RatDiv(R1, R)[2] = 1

----------------------------------------------------------------------------
(* C1-C10.                                                                 *)

\* C1: on every axis with a non-zero exponent d the contribution computed by
\* ConversionRatio is (sourceRatio / targetRatio)^d, for negative d as for
\* positive d, and the factor of dimension_cast is the product of the three
\* axis contributions.
C1_AxisContribution ==
    cv.inst =>
        /\ \A i \in 1..3 :
            cv.D[i] # 0 => cv.axis[i] = AxisFactor(cv.B1[i], cv.B[i], cv.D[i])
        /\ cv.conversion = RatMul(cv.axis[1], RatMul(cv.axis[2], cv.axis[3]))

\* C2: converting a quantity to its own scale leaves the value as it is,
\* whatever the ratios and the exponents: q.as<q.Scale>().value() = q.value().
C2_IdentityConversion ==
    (op = "as" /\ to = TypeOf(lhs)) => (res.ok /\ res.value = lhs.value)

\* C3: q.as<S>().as<q.Scale>() gives back q.value(), when both
\* representations are integral and the ratio of q to S passes the
\* multiple-check, and when both are floating (values exact rationals), for
\* every Dim.
C3_RoundTrip ==
    (/\ op = "as"
     /\ \/ is_integral(lhs.rep) /\ is_integral(to.rep) /\ IsMultiple(lhs.base, to.base)
        \/ is_floating_point(lhs.rep) /\ is_floating_point(to.rep))
    => (res.ok /\ as(ResUnit, TypeOf(lhs)).value = lhs.value)

\* C4: when the integral-to-integral converting constructor is permitted,
\* the integer division value * num / den it performs leaves no remainder,
\* for every value and every Dim.
C4_NoTruncation ==
    (/\ op = "ctor"
     /\ to # TypeOf(lhs)
     /\ IntegralCtorEnabled(to.rep, to.base, lhs.rep, lhs.base))
    => LET c == Conversion(lhs.base.r, to.base.r, lhs.base.dim)
       IN  res.ok /\ res.value[1] * c[2] = lhs.value[1] * c[1]

\* C5: as and asVal follow the rules of construction: between integral
\* representations whose ratio is no exact integer multiple they are
\* rejected, not truncated; and asVal<Q>() is as<Q>().value().
C5_AsFollowsConstruction ==
    /\ (/\ op \in {"as", "asVal"}
        /\ is_integral(lhs.rep) /\ is_integral(to.rep)
        /\ ~IsMultiple(lhs.base, to.base))
       => ~res.ok
    /\ (op = "asVal" /\ res.ok) => res.value = as(lhs, to).value

\* the scenario of C6: the integral quantity 3 of a length scale of ratio
\* 1/1, and the length scale of ratio 1/3 (si::BaseRatio<1,1>, <1,3>)
Three == Unit("int", [dim |-> <<1, 0, 0>>, r |-> <<(<<1, 1>>), (<<1, 1>>), (<<1, 1>>)>>], <<3, 1>>)

Thirds == [dim |-> <<1, 0, 0>>, r |-> <<(<<1, 3>>), (<<1, 1>>), (<<1, 1>>)>>]

\* C6 as stated: constructing from the integral 3 of ratio 1/1 a quantity of
\* ratio 1/3 is rejected for an integral target, and gives 9 for a floating
\* target.
C6_Original ==
    (op = "ctor" /\ lhs = Three /\ to.base = Thirds)
    => /\ is_integral(to.rep) => ~res.ok
       /\ is_floating_point(to.rep) => (res.ok /\ res.value = <<9, 1>>)

\* C6 as amended: constructing from the integral 3 of ratio 1/1 a quantity
\* of ratio 1/3 is permitted and gives 9, for an integral target as for a
\* floating target.
C6_Amended ==
    (op = "ctor" /\ lhs = Three /\ to.base = Thirds)
    => (res.ok /\ res.kind = "unit" /\ res.rep = to.rep /\ res.base = Thirds
        /\ res.value = <<9, 1>>)

C6_Witness ==
    /\ op = "ctor" /\ lhs = Three /\ to = UnitType("int", Thirds)
    /\ res.ok /\ res.value = <<9, 1>>

\* C7: a + b is a quantity of the common scale, of which both operand ratios
\* are exact integer multiples on every axis, and its value is the value of
\* a re-expressed in the common scale plus that of b.
C7_SumInCommonScale ==
    op = "+" =>
        /\ res.ok
        /\ res.base = CommonBase(lhs.base.dim, lhs.base, rhs.base)
        /\ \A i \in 1..3 : /\ WholeMultiple(lhs.base.r[i], res.base.r[i])
                           /\ WholeMultiple(rhs.base.r[i], res.base.r[i])
        /\ res.value = ValAdd(Reexpressed(lhs, res.base), Reexpressed(rhs, res.base))

\* C8: an axis whose exponent is 0 contributes 1/1, and the factor of the
\* cast does not depend on the ratios the source and the target have there:
\* it is the factor of the cast with both of them replaced by 1/1.
C8_ZeroExponentInvariance ==
    cv.inst =>
        \A i \in 1..3 :
            cv.D[i] = 0 =>
                /\ cv.axis[i] = <<1, 1>>
                /\ Conversion(WithAxis(cv.B1, i, <<1, 1>>),
                              WithAxis(cv.B, i, <<1, 1>>), cv.D) = cv.conversion

C8_Witness ==
    /\ cv.inst
    /\ \E i \in 1..3 :
        /\ cv.D[i] = 0
        /\ cv.B1[i] # <<1, 1>>
        /\ cv.B[i] # cv.B1[i]
        /\ cv.axis[i] = <<1, 1>>
    /\ cv.conversion # <<1, 1>>

\* C9 as stated: += and -= accept a right-hand operand only of the very
\* type of the left-hand one.
C9_Original ==
    op \in {"+=", "-="} => (res.ok <=> TypeOf(rhs) = TypeOf(lhs))

\* the right-hand operand of the last += or -= as it reaches the sum
Converted ==
    IF TypeOf(rhs) = TypeOf(lhs) THEN rhs.value
    ELSE MulDiv(lhs.rep, StaticCast(lhs.rep, rhs.value),
                Conversion(rhs.base.r, lhs.base.r, rhs.base.dim)[1],
                Conversion(rhs.base.r, lhs.base.r, rhs.base.dim)[2])

\* C9 as amended: += and -= accept a right-hand operand of the same Dim of
\* the very type of the left-hand one, and also one of another scale or
\* representation when a converting constructor of the left-hand type takes
\* it (the left-hand representation is floating, or both are integral and
\* the right-hand ratio is an exact integer multiple of the left-hand one on
\* every axis); that operand is converted to the left-hand scale by the
\* constructor before it is added or subtracted. Any other is rejected.
C9_Amended ==
    op \in {"+=", "-="} =>
        /\ res.ok <=>
            \/ TypeOf(rhs) = TypeOf(lhs)
            \/ is_floating_point(lhs.rep)
            \/ /\ is_integral(lhs.rep) /\ is_integral(rhs.rep)
               /\ \A i \in 1..3 : WholeMultiple(rhs.base.r[i], lhs.base.r[i])
        /\ res.ok =>
            /\ res.rep = lhs.rep /\ res.base = lhs.base
            /\ op = "+=" => res.value = ValAdd(lhs.value, Converted)
            /\ op = "-=" => res.value = ValSub(lhs.value, Converted)

C9_Witness ==
    /\ op = "+="
    /\ rhs.base # lhs.base
    /\ res.ok
    /\ res.value # ValAdd(lhs.value, rhs.value)

\* C10: when base^exp, exp >= 0, is in the range of the integer type, no
\* multiplication of ipow(base, exp) leaves the range, and the value it
\* returns is base^exp.
C10_IpowInRange ==
    (iargs[2] >= 0 /\ Fits(Pow(iargs[1], iargs[2])))
    => /\ ~iovf
       /\ ipc # "error"
       /\ ipc = "done" => iresult = Pow(iargs[1], iargs[2])

====
